---------------------------- MODULE Spec2Model ----------------------------
(***************************************************************************)
(* Model of backend/danswer/background/indexing/job_client.py:             *)
(* SimpleJob (the job handle) and SimpleJobClient (the scheduler).         *)
(*                                                                         *)
(* A worker is a multiprocessing Process.  The model keeps, for every      *)
(* Process object, what the handle reads from it: is_alive(), exitcode,    *)
(* whether start() has run, and whether terminate() has sent it SIGTERM.   *)
(* Following the multiprocessing library, a process that was created but   *)
(* not started is not alive and has exitcode None; a started process is    *)
(* alive until it exits; a natural exit leaves a code >= 0 and a death     *)
(* from signal N leaves the code -N.                                       *)
(*                                                                         *)
(* Three specifications share the state:                                   *)
(*   Spec        one caller; every call of the API is one step            *)
(*   SpecConc    two callers in submit at once, one step per statement of  *)
(*               submit / _cleanup_completed_jobs, with cancel and the     *)
(*               workers' exits in between                                 *)
(*   SpecHandle  one SimpleJob built directly by the caller over every     *)
(*               combination of process observations                       *)
(***************************************************************************)
EXTENDS Integers, Sequences, FiniteSets, TLC

(* ------------------------------ bounds -------------------------------- *)

\* ids the counter may hand out before the model stops admitting
MaxJobs == 3

\* SpecConc: submit is entered only while fewer ids than this were handed out
\* and fewer Process objects than this exist
MaxConcJobs == 2

\* worker capacities tried at construction: 1..MaxWorkers
MaxWorkers == 2

(* --------------------------- program values --------------------------- *)

\* Python's None; an Optional value is None or the one-element tuple <<v>>
None == <<>>

Some(v) == <<v>>

\* the signal Process.terminate() sends; a death from it leaves exitcode -SIGTERM
SIGTERM == 15

\* exit codes a worker function leaves by itself (0: it returns, 2: sys.exit(2))
ExitCodes == {0, 2}

Threads == {1, 2}

VARIABLES
    n_workers,       \* SimpleJobClient.n_workers
    job_id_counter,  \* SimpleJobClient.job_id_counter
    jobs,            \* SimpleJobClient.jobs: a dict, kept as its items in insertion order
    procs,           \* every Process object created so far, by creation order
    handles,         \* the SimpleJob objects the callers hold, in the order obtained
    last,            \* the last completed API call: its name and result
    pc,              \* SpecConc: each caller's position inside submit
    loc              \* SpecConc: each caller's local variables of submit

vars == <<n_workers, job_id_counter, jobs, procs, handles, last, pc, loc>>

(* ------------------------------ Process ------------------------------- *)

\* Process(target=func, args=args, daemon=True): created, not started
NewProcess == [started |-> FALSE, alive |-> FALSE, exitcode |-> None, sigterm |-> FALSE]

\* process.start(), when the OS creates the child
StartedProcess(p) == [p EXCEPT !.started = TRUE, !.alive = TRUE]

\* process.is_alive()
is_alive(p) == p.alive

\* process.exitcode
exitcode(p) == p.exitcode

\* a terminate() that also waits for the child to die
terminate_and_wait(p) ==
    [p EXCEPT !.sigterm = TRUE, !.alive = FALSE, !.exitcode = Some(-SIGTERM)]

\* process.terminate(): sends SIGTERM and returns at once
terminate(p) == [p EXCEPT !.sigterm = TRUE]

(* ------------------------------ SimpleJob ----------------------------- *)

\* SimpleJob(id=..., process=...); process is None or Some(index into procs)
SimpleJob(id, process) == [id |-> id, process |-> process]

\* the Process object behind a handle that has one
ProcessOf(job, ps) == ps[job.process[1]]

\* StatusRule with the exit-code test written as "nonzero": a death by signal reads error
StatusRule_nonzero_is_error(has_process, alive, code) ==
    IF ~has_process THEN "pending"
    ELSE IF alive THEN "running"
    ELSE IF code = None THEN "cancelled"
    ELSE IF code[1] # 0 THEN "error"
    ELSE "finished"

\* the priority rule of SimpleJob.status on what the handle reads
StatusRule(has_process, alive, code) ==
    IF ~has_process THEN "pending"
    ELSE IF alive THEN "running"
    ELSE IF code = None THEN "cancelled"
    ELSE IF code[1] > 0 THEN "error"
    ELSE "finished"

\* SimpleJob.status
status(job, ps) ==
    IF job.process = None
    THEN StatusRule(FALSE, FALSE, None)
    ELSE StatusRule(TRUE, is_alive(ProcessOf(job, ps)), exitcode(ProcessOf(job, ps)))

\* done without the "cancelled" disjunct
done_forgets_cancelled(job, ps) ==
    \/ status(job, ps) = "finished"
    \/ status(job, ps) = "error"

\* SimpleJob.done
done(job, ps) ==
    \/ status(job, ps) = "finished"
    \/ status(job, ps) = "cancelled"
    \/ status(job, ps) = "error"

\* release without the is_alive() test
ReleaseSignals_any_process(job, ps) == job.process # None

\* the condition of SimpleJob.release: a process is attached and alive
ReleaseSignals(job, ps) ==
    /\ job.process # None
    /\ is_alive(ProcessOf(job, ps))

\* SimpleJob.release: how many times the call runs process.terminate()
TerminateCalls(job, ps) == IF ReleaseSignals(job, ps) THEN 1 ELSE 0

\* SimpleJob.release: the processes after the call
release(job, ps) ==
    IF ReleaseSignals(job, ps)
    THEN [ps EXCEPT ![job.process[1]] = terminate(@)]
    ELSE ps

(* -------------------------------- dict -------------------------------- *)

\* list(d.keys())
DictKeys(d) == [i \in 1..Len(d) |-> d[i].key]

\* d.get(k): None or Some(value)
DictGet(d, k) ==
    IF \E i \in 1..Len(d) : d[i].key = k
    THEN Some(d[CHOOSE i \in 1..Len(d) : d[i].key = k].value)
    ELSE None

\* k in d
DictHas(d, k) == \E i \in 1..Len(d) : d[i].key = k

\* del d[k], for k in d
DictDel(d, k) == SelectSeq(d, LAMBDA item : item.key # k)

\* d[k] = v: in place for a key already there, else appended
DictSet(d, k, v) ==
    IF DictHas(d, k)
    THEN [i \in 1..Len(d) |-> IF d[i].key = k THEN [key |-> k, value |-> v] ELSE d[i]]
    ELSE Append(d, [key |-> k, value |-> v])

\* len(d)
DictLen(d) == Len(d)

(* --------------------------- SimpleJobClient -------------------------- *)

\* the cleanup loop without its done() test: every listed job is deleted
CleanupLoop_without_done_test(d, ids, ps) ==
    SelectSeq(d, LAMBDA item : \A i \in 1..Len(ids) : ids[i] # item.key)

RECURSIVE CleanupLoop(_, _, _)
\* the for loop of _cleanup_completed_jobs over the key list taken at its start
CleanupLoop(d, ids, ps) ==
    IF ids = <<>> THEN d
    ELSE LET job == DictGet(d, Head(ids))
         IN  IF job # None /\ done(job[1], ps)
             THEN CleanupLoop(DictDel(d, job[1].id), Tail(ids), ps)
             ELSE CleanupLoop(d, Tail(ids), ps)

\* submit without its cleanup pass
cleanup_completed_jobs_skipped(d, ps) == d

\* SimpleJobClient._cleanup_completed_jobs
cleanup_completed_jobs(d, ps) == CleanupLoop(d, DictKeys(d), ps)

\* the capacity check off by one
NoAvailableWorkers_off_by_one(d, n) == DictLen(d) > n

\* the capacity check of submit: len(self.jobs) >= self.n_workers
NoAvailableWorkers(d, n) == DictLen(d) >= n

\* the id read after the increment
AllocatedId_after_increment(counter) == counter + 1

\* the id submit allocates from the counter it reads
AllocatedId(counter) == counter

\* the counter left where it was
CounterAfterAlloc_not_advanced(counter) == counter

\* self.job_id_counter += 1
CounterAfterAlloc(counter) == counter + 1

\* the record of a completed call: its name, what it returned, whether it
\* raised, and how many terminate signals it issued
Call(op, ret, raised, signals) ==
    [op |-> op, ret |-> ret, raised |-> raised, signals |-> signals]

(* ------------------------- one caller: Spec --------------------------- *)

\* no caller is inside submit
Idle == [t \in Threads |-> "idle"]

\* the locals of submit before they are assigned
NoLocals ==
    [current_job_ids |-> <<>>, cleanup_job |-> None, job_id |-> None,
     counter_read |-> None, process |-> None, job |-> None]

NoCall == Call("none", None, FALSE, 0)

\* SimpleJobClient(n_workers): the state after construction
Init ==
    /\ n_workers \in 1..MaxWorkers
    /\ job_id_counter = 0
    /\ jobs = <<>>
    /\ procs = <<>>
    /\ handles = <<>>
    /\ last = NoCall
    /\ pc = Idle
    /\ loc = [t \in Threads |-> NoLocals]

\* the registration left out
Register_forgotten(d, job_id, job) == d

\* self.jobs[job_id] = job
Register(d, job_id, job) == DictSet(d, job_id, job)

\* a refusal that has already taken an id
SubmitRefuse_after_alloc(cleaned) ==
    /\ jobs' = cleaned
    /\ job_id_counter < MaxJobs
    /\ job_id_counter' = CounterAfterAlloc(job_id_counter)
    /\ last' = Call("submit", None, FALSE, 0)
    /\ UNCHANGED <<n_workers, procs, handles, pc, loc>>

\* submit's refusal: "No available workers to run job", return None
SubmitRefuse(cleaned) ==
    /\ jobs' = cleaned
    /\ last' = Call("submit", None, FALSE, 0)
    /\ UNCHANGED <<n_workers, job_id_counter, procs, handles, pc, loc>>

\* an admission that registers the handle before start() is called
SubmitAdmit_registers_before_start(cleaned) ==
    /\ job_id_counter < MaxJobs
    /\ \E spawned \in BOOLEAN :
         LET job_id == AllocatedId(job_id_counter)
             process == Some(Len(procs) + 1)
             job == SimpleJob(job_id, process)
         IN  /\ job_id_counter' = CounterAfterAlloc(job_id_counter)
             /\ jobs' = Register(cleaned, job_id, job)
             /\ IF spawned
                THEN /\ procs' = Append(procs, StartedProcess(NewProcess))
                     /\ handles' = Append(handles, job)
                     /\ last' = Call("submit", Some(job), FALSE, 0)
                ELSE /\ procs' = Append(procs, NewProcess)
                     /\ handles' = handles
                     /\ last' = Call("submit", None, TRUE, 0)
             /\ UNCHANGED <<n_workers, pc, loc>>

\* an admission that gives the id back when start() fails
SubmitAdmit_rolls_back(cleaned) ==
    /\ job_id_counter < MaxJobs
    /\ \E spawned \in BOOLEAN :
         LET job_id == AllocatedId(job_id_counter)
             process == Some(Len(procs) + 1)
             job == SimpleJob(job_id, process)
         IN  /\ IF spawned
                THEN /\ job_id_counter' = CounterAfterAlloc(job_id_counter)
                     /\ procs' = Append(procs, StartedProcess(NewProcess))
                     /\ jobs' = Register(cleaned, job_id, job)
                     /\ handles' = Append(handles, job)
                     /\ last' = Call("submit", Some(job), FALSE, 0)
                ELSE /\ job_id_counter' = job_id_counter
                     /\ procs' = Append(procs, NewProcess)
                     /\ jobs' = cleaned
                     /\ handles' = handles
                     /\ last' = Call("submit", None, TRUE, 0)
             /\ UNCHANGED <<n_workers, pc, loc>>

\* an admission that swallows the failure of start() and returns None
SubmitAdmit_swallows_failure(cleaned) ==
    /\ job_id_counter < MaxJobs
    /\ \E spawned \in BOOLEAN :
         LET job_id == AllocatedId(job_id_counter)
             process == Some(Len(procs) + 1)
             job == SimpleJob(job_id, process)
         IN  /\ job_id_counter' = CounterAfterAlloc(job_id_counter)
             /\ IF spawned
                THEN /\ procs' = Append(procs, StartedProcess(NewProcess))
                     /\ jobs' = Register(cleaned, job_id, job)
                     /\ handles' = Append(handles, job)
                     /\ last' = Call("submit", Some(job), FALSE, 0)
                ELSE /\ procs' = Append(procs, NewProcess)
                     /\ jobs' = cleaned
                     /\ handles' = handles
                     /\ last' = Call("submit", None, FALSE, 0)
             /\ UNCHANGED <<n_workers, pc, loc>>

\* submit's admission: id allocation, Process creation, start (which the OS may
\* refuse, and then start() raises out of submit), registration, return job
SubmitAdmit(cleaned) ==
    /\ job_id_counter < MaxJobs
    /\ \E spawned \in BOOLEAN :
         LET job_id == AllocatedId(job_id_counter)
             process == Some(Len(procs) + 1)
             job == SimpleJob(job_id, process)
         IN  /\ job_id_counter' = CounterAfterAlloc(job_id_counter)
             /\ IF spawned
                THEN /\ procs' = Append(procs, StartedProcess(NewProcess))
                     /\ jobs' = Register(cleaned, job_id, job)
                     /\ handles' = Append(handles, job)
                     /\ last' = Call("submit", Some(job), FALSE, 0)
                ELSE /\ procs' = Append(procs, NewProcess)
                     /\ jobs' = cleaned
                     /\ handles' = handles
                     /\ last' = Call("submit", None, TRUE, 0)
             /\ UNCHANGED <<n_workers, pc, loc>>

\* a submit whose capacity check counts the jobs tracked before the cleanup pass
Submit_checks_before_cleanup ==
    LET cleaned == cleanup_completed_jobs(jobs, procs)
    IN  IF NoAvailableWorkers(jobs, n_workers)
        THEN SubmitRefuse(cleaned)
        ELSE SubmitAdmit(cleaned)

\* SimpleJobClient.submit, the whole call: cleanup pass, capacity check, then
\* refusal or admission
Submit ==
    LET cleaned == cleanup_completed_jobs(jobs, procs)
    IN  IF NoAvailableWorkers(cleaned, n_workers)
        THEN SubmitRefuse(cleaned)
        ELSE SubmitAdmit(cleaned)

\* the handles a caller can hold
Held == {handles[i] : i \in 1..Len(handles)}

\* a cancel that also drops the job from the client's dict
Cancel_evicts(job) ==
    /\ procs' = release(job, procs)
    /\ jobs' = DictDel(jobs, job.id)
    /\ last' = Call("cancel", ReleaseSignals(job, procs), FALSE, TerminateCalls(job, procs))
    /\ UNCHANGED <<n_workers, job_id_counter, handles, pc, loc>>

\* SimpleJob.cancel (which is release) on a held handle
Cancel(job) ==
    /\ procs' = release(job, procs)
    /\ last' = Call("cancel", ReleaseSignals(job, procs), FALSE, TerminateCalls(job, procs))
    /\ UNCHANGED <<n_workers, job_id_counter, jobs, handles, pc, loc>>

\* reading SimpleJob.status of a held handle
PollStatus(job) ==
    /\ last' = Call("status", status(job, procs), FALSE, 0)
    /\ UNCHANGED <<n_workers, job_id_counter, jobs, procs, handles, pc, loc>>

\* SimpleJob.done on a held handle
PollDone(job) ==
    /\ last' = Call("done", done(job, procs), FALSE, 0)
    /\ UNCHANGED <<n_workers, job_id_counter, jobs, procs, handles, pc, loc>>

\* a worker's function returns, raises or calls sys.exit: the process ends by itself
ProcessExit(i, code) ==
    /\ is_alive(procs[i])
    /\ procs' = [procs EXCEPT ![i] = [@ EXCEPT !.alive = FALSE, !.exitcode = Some(code)]]
    /\ UNCHANGED <<n_workers, job_id_counter, jobs, handles, last, pc, loc>>

\* a worker that was sent SIGTERM by terminate() dies from it; multiprocessing
\* reports a child ended by signal N with exitcode -N
ProcessKilled(i) ==
    /\ is_alive(procs[i])
    /\ procs[i].sigterm
    /\ procs' = [procs EXCEPT ![i] = [@ EXCEPT !.alive = FALSE, !.exitcode = Some(-SIGTERM)]]
    /\ UNCHANGED <<n_workers, job_id_counter, jobs, handles, last, pc, loc>>

Next ==
    \/ Submit
    \/ \E job \in Held : Cancel(job)
    \/ \E job \in Held : PollStatus(job)
    \/ \E job \in Held : PollDone(job)
    \/ \E i \in 1..Len(procs), code \in ExitCodes : ProcessExit(i, code)
    \/ \E i \in 1..Len(procs) : ProcessKilled(i)

Spec == Init /\ [][Next]_vars

(* -------------------- one handle: SpecHandle ------------------------- *)

\* what a Process object may show a handle: every combination of is_alive()
\* and exitcode (unavailable, negative, zero, positive)
ProcessViews ==
    {[started |-> TRUE, alive |-> a, exitcode |-> c, sigterm |-> FALSE] :
        a \in BOOLEAN, c \in {None, Some(-SIGTERM), Some(0), Some(2)}}

\* a caller builds one SimpleJob itself: SimpleJob(id) or SimpleJob(id, process)
InitHandle ==
    /\ n_workers \in 1..MaxWorkers
    /\ job_id_counter = 0
    /\ jobs = <<>>
    /\ \E id \in 0..MaxJobs - 1 :
         \/ procs = <<>> /\ handles = <<SimpleJob(id, None)>>
         \/ procs \in {<<p>> : p \in ProcessViews} /\ handles = <<SimpleJob(id, Some(1))>>
    /\ last = NoCall
    /\ pc = Idle
    /\ loc = [t \in Threads |-> NoLocals]

NextHandle ==
    \/ \E job \in Held : Cancel(job)
    \/ \E job \in Held : PollStatus(job)
    \/ \E job \in Held : PollDone(job)

SpecHandle == InitHandle /\ [][NextHandle]_vars

(* ------------------- several callers: SpecConc ------------------------ *)
(* submit holds no lock, so callers on different threads interleave between *)
(* its statements.  Each caller t is at pc[t]:                              *)
(*   idle      outside submit                                               *)
(*   loop      in the for loop of _cleanup_completed_jobs                   *)
(*   del       before "del self.jobs[job.id]"                               *)
(*   check     before the capacity check                                    *)
(*   alloc     before "job_id = self.job_id_counter"                        *)
(*   load      before the read of "self.job_id_counter += 1"                *)
(*   store     before the write of "self.job_id_counter += 1"               *)
(*   construct before Process(...) and SimpleJob(...)                       *)
(*   start     before "process.start()"                                     *)
(*   register  before "self.jobs[job_id] = job"                             *)

\* caller t moves to position p with locals l
Goto(t, p, l) ==
    /\ pc' = [pc EXCEPT ![t] = p]
    /\ loc' = [loc EXCEPT ![t] = l]

\* caller t leaves submit
Leave(t) == Goto(t, "idle", NoLocals)

\* submit is entered: current_job_ids = list(self.jobs.keys())
EnterSubmit(t) ==
    /\ pc[t] = "idle"
    /\ job_id_counter < MaxConcJobs
    /\ Len(procs) < MaxConcJobs
    /\ Goto(t, "loop", [NoLocals EXCEPT !.current_job_ids = DictKeys(jobs)])
    /\ UNCHANGED <<n_workers, job_id_counter, jobs, procs, handles, last>>

\* one turn of the for loop: job = self.jobs.get(job_id); if job and job.done()
CleanupNext(t) ==
    /\ pc[t] = "loop"
    /\ IF loc[t].current_job_ids = <<>>
       THEN Goto(t, "check", loc[t])
       ELSE LET job == DictGet(jobs, Head(loc[t].current_job_ids))
                rest == Tail(loc[t].current_job_ids)
            IN  IF job # None /\ done(job[1], procs)
                THEN Goto(t, "del", [loc[t] EXCEPT !.current_job_ids = rest,
                                                    !.cleanup_job = job])
                ELSE Goto(t, "loop", [loc[t] EXCEPT !.current_job_ids = rest,
                                                     !.cleanup_job = job])
    /\ UNCHANGED <<n_workers, job_id_counter, jobs, procs, handles, last>>

\* del self.jobs[job.id]: KeyError out of submit when the key is gone
CleanupDel(t) ==
    /\ pc[t] = "del"
    /\ IF DictHas(jobs, loc[t].cleanup_job[1].id)
       THEN /\ jobs' = DictDel(jobs, loc[t].cleanup_job[1].id)
            /\ Goto(t, "loop", loc[t])
            /\ last' = last
       ELSE /\ jobs' = jobs
            /\ Leave(t)
            /\ last' = Call("submit", None, TRUE, 0)
    /\ UNCHANGED <<n_workers, job_id_counter, procs, handles>>

\* if len(self.jobs) >= self.n_workers: return None
CheckCapacity(t) ==
    /\ pc[t] = "check"
    /\ IF NoAvailableWorkers(jobs, n_workers)
       THEN /\ Leave(t)
            /\ last' = Call("submit", None, FALSE, 0)
       ELSE /\ Goto(t, "alloc", loc[t])
            /\ last' = last
    /\ UNCHANGED <<n_workers, job_id_counter, jobs, procs, handles>>

\* job_id = self.job_id_counter
AllocId(t) ==
    /\ pc[t] = "alloc"
    /\ Goto(t, "load", [loc[t] EXCEPT !.job_id = Some(AllocatedId(job_id_counter))])
    /\ UNCHANGED <<n_workers, job_id_counter, jobs, procs, handles, last>>

\* self.job_id_counter += 1, its read
CounterLoad(t) ==
    /\ pc[t] = "load"
    /\ Goto(t, "store", [loc[t] EXCEPT !.counter_read = Some(job_id_counter)])
    /\ UNCHANGED <<n_workers, job_id_counter, jobs, procs, handles, last>>

\* self.job_id_counter += 1, its write
CounterStore(t) ==
    /\ pc[t] = "store"
    /\ job_id_counter' = CounterAfterAlloc(loc[t].counter_read[1])
    /\ Goto(t, "construct", loc[t])
    /\ UNCHANGED <<n_workers, jobs, procs, handles, last>>

\* process = Process(...); job = SimpleJob(id=job_id, process=process)
Construct(t) ==
    /\ pc[t] = "construct"
    /\ procs' = Append(procs, NewProcess)
    /\ Goto(t, "start", [loc[t] EXCEPT
            !.process = Some(Len(procs) + 1),
            !.job = Some(SimpleJob(loc[t].job_id[1], Some(Len(procs) + 1)))])
    /\ UNCHANGED <<n_workers, job_id_counter, jobs, handles, last>>

\* process.start(): the child runs, or the OS refuses and start() raises
StartProcess(t) ==
    /\ pc[t] = "start"
    /\ \/ /\ procs' = [procs EXCEPT ![loc[t].process[1]] = StartedProcess(@)]
          /\ Goto(t, "register", loc[t])
          /\ last' = last
       \/ /\ procs' = procs
          /\ Leave(t)
          /\ last' = Call("submit", None, TRUE, 0)
    /\ UNCHANGED <<n_workers, job_id_counter, jobs, handles>>

\* self.jobs[job_id] = job; return job
RegisterAndReturn(t) ==
    /\ pc[t] = "register"
    /\ jobs' = Register(jobs, loc[t].job_id[1], loc[t].job[1])
    /\ handles' = Append(handles, loc[t].job[1])
    /\ last' = Call("submit", loc[t].job, FALSE, 0)
    /\ Leave(t)
    /\ UNCHANGED <<n_workers, job_id_counter, procs>>

NextConc ==
    \/ \E t \in Threads : EnterSubmit(t)
    \/ \E t \in Threads : CleanupNext(t)
    \/ \E t \in Threads : CleanupDel(t)
    \/ \E t \in Threads : CheckCapacity(t)
    \/ \E t \in Threads : AllocId(t)
    \/ \E t \in Threads : CounterLoad(t)
    \/ \E t \in Threads : CounterStore(t)
    \/ \E t \in Threads : Construct(t)
    \/ \E t \in Threads : StartProcess(t)
    \/ \E t \in Threads : RegisterAndReturn(t)
    \/ \E job \in Held : Cancel(job)
    \/ \E i \in 1..Len(procs), code \in ExitCodes : ProcessExit(i, code)
    \/ \E i \in 1..Len(procs) : ProcessKilled(i)

SpecConc == Init /\ [][NextConc]_vars

(* ------------------------------ claims -------------------------------- *)

\* the jobs in client.jobs
Tracked == {jobs[i].value : i \in 1..Len(jobs)}

Terminal == {"finished", "cancelled", "error"}

\* C1: with one caller, after any sequence of submit calls, cancel calls and
\* worker exits, client.jobs never holds more entries than n_workers.
C1_CapacityInvariant == DictLen(jobs) <= n_workers

\* C1 witness: a full client that has already cleaned up a job and has refused
\* the last submit.
C1_Witness ==
    /\ DictLen(jobs) = n_workers
    /\ job_id_counter > n_workers
    /\ last = Call("submit", None, FALSE, 0)

\* C3: the ids of the handles returned by successful submit calls, in the order
\* returned, are strictly increasing (so none repeats).
C3_IdMonotonicity ==
    \A i, j \in 1..Len(handles) : i < j => handles[i].id < handles[j].id

\* C3 witness: three handles were returned by a client of capacity 1, so the
\* first two were removed by cleanup passes before the third was admitted.
C3_Witness ==
    /\ n_workers = 1
    /\ Len(handles) = 3
    /\ ~DictHas(jobs, handles[1].id)
    /\ ~DictHas(jobs, handles[2].id)
    /\ DictHas(jobs, handles[3].id)

\* C4: client.jobs changes only in a step of submit: a worker's exit, a status
\* or done poll and a cancel all leave it as it was, so a job whose process has
\* ended keeps its capacity slot until the next submit, whose cleanup pass
\* removes every job that had ended.
C4_LazyCleanup ==
    [][/\ jobs' # jobs => Submit
       /\ Submit => \A i \in 1..Len(jobs) :
                       status(jobs[i].value, procs) \in Terminal
                          => ~DictHas(jobs', jobs[i].key)]_vars

\* C4 witness: a tracked job has ended, done() has since returned true for it,
\* and it still fills the client.
C4_Witness ==
    /\ \E job \in Tracked : status(job, procs) \in Terminal
    /\ last = Call("done", TRUE, FALSE, 0)
    /\ DictLen(jobs) = n_workers

\* C7: cancel returns true exactly when the handle has a process and that
\* process is alive at the call; then the call issues exactly one terminate
\* signal, to that process, and touches no other; otherwise it issues none.
C7_CancelReturn ==
    [][\A job \in Held :
          Cancel(job) =>
            LET live == IF job.process = None THEN FALSE
                        ELSE procs[job.process[1]].alive
            IN  /\ last'.op = "cancel" /\ ~last'.raised
                /\ last'.ret = live
                /\ IF live
                   THEN /\ last'.signals = 1
                        /\ procs'[job.process[1]] =
                              [procs[job.process[1]] EXCEPT !.sigterm = TRUE]
                        /\ \A i \in 1..Len(procs) :
                              i # job.process[1] => procs'[i] = procs[i]
                   ELSE /\ last'.signals = 0
                        /\ procs' = procs]_vars

\* C7 witness: cancel has returned true on a live process, which now holds
\* the signal.
C7_Witness ==
    /\ last = Call("cancel", TRUE, FALSE, 1)
    /\ \E job \in Held :
         /\ job.process # None
         /\ ProcessOf(job, procs).alive
         /\ ProcessOf(job, procs).sigterm

\* C8: status is pending without a process; else running when alive; else
\* cancelled when the exit code is unavailable; else error when the exit code
\* is positive; else (zero or negative) finished.
C8_StatusDerivation ==
    \A job \in Held :
        LET s == status(job, procs)
        IN  /\ job.process = None => s = "pending"
            /\ job.process # None =>
                 LET p == procs[job.process[1]]
                 IN  /\ p.alive => s = "running"
                     /\ ~p.alive /\ p.exitcode = None => s = "cancelled"
                     /\ ~p.alive /\ p.exitcode # None /\ p.exitcode[1] > 0 => s = "error"
                     /\ ~p.alive /\ p.exitcode # None /\ p.exitcode[1] <= 0 => s = "finished"
            /\ last.op = "status" => last.ret = s

\* C8 witness: status was read as finished from a process that is not alive
\* and has a negative exit code.
C8_Witness ==
    /\ last = Call("status", "finished", FALSE, 0)
    /\ \E job \in Held :
         /\ job.process # None
         /\ ~ProcessOf(job, procs).alive
         /\ ProcessOf(job, procs).exitcode = Some(-SIGTERM)

\* C9: done() is true exactly when status is finished, cancelled or error, and
\* false when status is pending or running.
C9_DoneIffTerminal ==
    \A job \in Held :
        /\ done(job, procs) <=> status(job, procs) \in Terminal
        /\ status(job, procs) \in {"pending", "running"} => ~done(job, procs)
        /\ last.op = "done" => (last.ret <=> status(job, procs) \in Terminal)

\* C9 witness: done() has returned true for a job whose status is cancelled.
C9_Witness ==
    /\ last = Call("done", TRUE, FALSE, 0)
    /\ \E job \in Held : status(job, procs) = "cancelled"

\* C10: a submit that finds at least n_workers jobs tracked after its cleanup
\* pass returns None without raising, creates no process, leaves job_id_counter
\* alone, registers nothing (client.jobs is the cleaned dict) and hands no
\* handle out; nothing of the refused work is kept anywhere.
C10_Refusal ==
    [][Submit /\ Len(cleanup_completed_jobs(jobs, procs)) >= n_workers
        => /\ last' = Call("submit", None, FALSE, 0)
           /\ procs' = procs
           /\ job_id_counter' = job_id_counter
           /\ jobs' = cleanup_completed_jobs(jobs, procs)
           /\ handles' = handles
           /\ pc' = pc /\ loc' = loc /\ n_workers' = n_workers]_vars

\* C10 witness: a submit was refused by a full client whose counter has moved.
C10_Witness ==
    /\ last = Call("submit", None, FALSE, 0)
    /\ DictLen(jobs) >= n_workers
    /\ job_id_counter = n_workers
    /\ \A job \in Tracked : status(job, procs) = "running"

\* C2: with callers interleaved inside submit, two of them never both pass the
\* capacity check before either registers its job, so the number of keys in
\* client.jobs never exceeds n_workers.
C2_NoOverAdmission == Cardinality({jobs[i].key : i \in 1..Len(jobs)}) <= n_workers

\* every SimpleJob object that exists: held by a caller, tracked by the
\* client, or local to a caller inside submit
AllJobs ==
    Held \cup Tracked \cup {loc[t].job[1] : t \in {u \in Threads : loc[u].job # None}}

\* C5: for every SimpleJob, from its construction on (the position inside
\* submit where its process is not started yet included), once status reads
\* finished, cancelled or error, it does not read pending or running afterwards.
C5_StatusMonotone ==
    [][\A job \in AllJobs :
          status(job, procs) \in Terminal
             => status(job, procs') \notin {"pending", "running"}]_vars

\* C6: a job whose process was alive at cancel and then died from the
\* terminate signal reads cancelled, and neither error nor finished.
C6_CancelLeadsToCancelled ==
    \A job \in Held :
        (/\ job.process # None
         /\ ProcessOf(job, procs).sigterm
         /\ ~ProcessOf(job, procs).alive
         /\ ProcessOf(job, procs).exitcode = Some(-SIGTERM))
            => /\ status(job, procs) = "cancelled"
               /\ status(job, procs) \notin {"error", "finished"}

\* a step of submit that returned None (a refusal)
Refused == Submit /\ last' = Call("submit", None, FALSE, 0)

\* a step of submit that returned a handle
Admitted == Submit /\ last'.ret # None

\* a step of submit out of which process.start() raised
SpawnFailed == Submit /\ last'.raised

\* the tracked jobs that are not done, in the dict's order
NotDone == SelectSeq(jobs, LAMBDA item : status(item.value, procs) \notin Terminal)

\* C11: a submit that finds fewer than n_workers jobs tracked after its cleanup
\* pass and whose spawn succeeds returns a handle whose id is job_id_counter
\* before the call, advances job_id_counter by exactly 1, attaches a new,
\* started process to the handle, and leaves client.jobs as the cleaned dict
\* plus that one handle under its id.
C11_AdmissionEffect ==
    [][Submit /\ Len(NotDone) < n_workers /\ ~last'.raised
        => /\ last'.op = "submit" /\ last'.ret # None
           /\ LET job == last'.ret[1]
              IN  /\ job.id = job_id_counter
                  /\ job_id_counter' = job_id_counter + 1
                  /\ job.process = Some(Len(procs) + 1)
                  /\ Len(procs') = Len(procs) + 1
                  /\ procs'[Len(procs')].started /\ procs'[Len(procs')].alive
                  /\ \A i \in 1..Len(procs) : procs'[i] = procs[i]
                  /\ jobs' = Append(NotDone, [key |-> job.id, value |-> job])
                  /\ handles' = Append(handles, job)]_vars

\* C11 witness: the third submit was admitted into a client of capacity 2 after
\* an earlier job had been cleaned up.
C11_Witness ==
    /\ n_workers = 2
    /\ job_id_counter = 3
    /\ Len(handles) = 3
    /\ last = Call("submit", Some(handles[3]), FALSE, 0)
    /\ DictLen(jobs) = 2

\* C12: a submit is refused only if at least n_workers of the jobs tracked at
\* the call were not done when its cleanup pass looked at them; so a call that
\* starts with at most n_workers jobs tracked, one of them done, is not refused.
C12_FreshlyPruned ==
    [][/\ Refused => Len(NotDone) >= n_workers
       /\ (/\ Submit
           /\ DictLen(jobs) <= n_workers
           /\ \E i \in 1..Len(jobs) : status(jobs[i].value, procs) \in Terminal)
             => ~Refused]_vars

\* C12 witness: a client of capacity 1 has admitted its second job with no
\* failed spawn, so the call that admitted it found the first job done and
\* removed it before its capacity check.
C12_Witness ==
    /\ n_workers = 1
    /\ job_id_counter = 2
    /\ Len(handles) = 2
    /\ last = Call("submit", Some(handles[2]), FALSE, 0)
    /\ DictKeys(jobs) = <<1>>

\* C13: capacity 2, spawns succeeding.  On the fresh client submit returns id
\* 0 (A); with A running it returns id 1 (B); with A running and B finished
\* with code 0 it removes B, admits C and returns id 2; with A and C running it
\* returns None and leaves exactly A and C tracked.
C13_Scenario ==
    [][(n_workers = 2 /\ Submit /\ ~last'.raised) =>
        /\ (jobs = <<>> /\ job_id_counter = 0)
              => last'.ret # None /\ last'.ret[1].id = 0 /\ DictKeys(jobs') = <<0>>
        /\ (/\ DictKeys(jobs) = <<0>> /\ job_id_counter = 1
            /\ status(jobs[1].value, procs) = "running")
              => last'.ret # None /\ last'.ret[1].id = 1 /\ DictKeys(jobs') = <<0, 1>>
        /\ (/\ DictKeys(jobs) = <<0, 1>> /\ job_id_counter = 2
            /\ status(jobs[1].value, procs) = "running"
            /\ status(jobs[2].value, procs) = "finished")
              => /\ last'.ret # None /\ last'.ret[1].id = 2
                 /\ jobs' = <<jobs[1], [key |-> 2, value |-> last'.ret[1]]>>
        /\ (/\ DictKeys(jobs) = <<0, 2>> /\ job_id_counter = 3
            /\ status(jobs[1].value, procs) = "running"
            /\ status(jobs[2].value, procs) = "running")
              => last'.ret = None /\ jobs' = jobs]_vars

\* C13 witness: the end of the scenario: D was refused, A (id 0) and C (id 2)
\* are running and tracked, B (id 1) has exited with code 0 and is gone.
C13_Witness ==
    /\ n_workers = 2
    /\ job_id_counter = 3
    /\ DictKeys(jobs) = <<0, 2>>
    /\ Len(procs) = 3
    /\ procs[1].alive /\ procs[3].alive
    /\ procs[2].exitcode = Some(0)
    /\ last = Call("submit", None, FALSE, 0)

\* C14: when process.start() fails in an admitted submit, the failure comes
\* out of submit as an error: the call returns neither None nor a handle, no
\* caller gets a handle, and client.jobs holds no handle for the failed spawn.
C14_SpawnFailurePropagates ==
    [][(/\ Submit
        /\ Len(procs') = Len(procs) + 1
        /\ ~procs'[Len(procs')].started)
          => /\ last'.op = "submit" /\ last'.raised
             /\ last'.ret = None
             /\ handles' = handles
             /\ jobs' = NotDone
             /\ \A i \in 1..Len(jobs') :
                   jobs'[i].value.process # Some(Len(procs'))]_vars

\* C14 witness: the last submit raised and left a Process that never started.
C14_Witness ==
    /\ last = Call("submit", None, TRUE, 0)
    /\ Len(procs) >= 1
    /\ ~procs[Len(procs)].started
    /\ DictLen(jobs) < n_workers

\* C15: a job leaves client.jobs only in a step of submit and only if it was
\* done at that call's cleanup pass; a running job is never removed; and a
\* step of submit sends no terminate signal and changes no existing process.
C15_RemovalOnlyWhenDone ==
    [][/\ \A i \in 1..Len(jobs) :
            ~DictHas(jobs', jobs[i].key)
               => Submit /\ status(jobs[i].value, procs) \in Terminal
       /\ \A i \in 1..Len(jobs) :
            status(jobs[i].value, procs) = "running"
               => DictGet(jobs', jobs[i].key) = Some(jobs[i].value)
       /\ Submit => /\ last'.signals = 0
                    /\ \A i \in 1..Len(procs) : procs'[i] = procs[i]]_vars

\* C15 witness: a submit has just removed an ended job while a running job,
\* tracked before it, stayed.
C15_Witness ==
    /\ Len(handles) = 3
    /\ last = Call("submit", Some(handles[3]), FALSE, 0)
    /\ DictKeys(jobs) = <<handles[1].id, handles[3].id>>
    /\ status(handles[1], procs) = "running"
    /\ status(handles[2], procs) \in Terminal

\* C16: status and done change nothing: no signal, no process, not client.jobs,
\* not job_id_counter.  cancel changes nothing but the signal it sends to its
\* own process: the handles, client.jobs and job_id_counter stay, so a
\* cancelled job keeps its capacity slot.
C16_HandleOpsFrame ==
    [][\A job \in Held :
         /\ (PollStatus(job) \/ PollDone(job))
               => /\ procs' = procs /\ jobs' = jobs /\ handles' = handles
                  /\ job_id_counter' = job_id_counter /\ n_workers' = n_workers
                  /\ last'.signals = 0
         /\ Cancel(job)
               => /\ jobs' = jobs /\ handles' = handles
                  /\ job_id_counter' = job_id_counter /\ n_workers' = n_workers
                  /\ Len(procs') = Len(procs)
                  /\ \A i \in 1..Len(procs) :
                        \/ procs'[i] = procs[i]
                        \/ /\ job.process = Some(i)
                           /\ procs'[i] = [procs[i] EXCEPT !.sigterm = TRUE]]_vars

\* C16 witness: cancel has signalled a tracked job, which is still alive and
\* still fills the client.
C16_Witness ==
    /\ last = Call("cancel", TRUE, FALSE, 1)
    /\ DictLen(jobs) = n_workers
    /\ \E job \in Tracked : ProcessOf(job, procs).sigterm /\ ProcessOf(job, procs).alive

\* C17: with one caller, a submit that returns None leaves client.jobs exactly
\* as it was before the call (its cleanup pass removed nothing) and leaves
\* job_id_counter alone.
C17_RefusedChangesNothing ==
    [][Refused => jobs' = jobs /\ job_id_counter' = job_id_counter]_vars

\* C17 witness: a client of capacity 1 that has already cleaned one job up has
\* refused a submit while its second job is running.
C17_Witness ==
    /\ n_workers = 1
    /\ job_id_counter = 2
    /\ last = Call("submit", None, FALSE, 0)
    /\ DictKeys(jobs) = <<1>>
    /\ \A job \in Tracked : status(job, procs) = "running"

\* C18: with two callers interleaved between the read of job_id_counter and
\* its increment, no two returned handles carry the same id (so no
\* registration overwrites another handle's entry).
C18_UniqueIdsConcurrent ==
    \A i, j \in 1..Len(handles) : i # j => handles[i].id # handles[j].id

\* C19: with two callers interleaved in their cleanup passes, every
\* "del self.jobs[job.id]" finds its key: no call raises KeyError for a job the
\* other call has removed, and each done job is deleted once.
C19_ConcurrentCleanupSafe ==
    [][\A t \in Threads :
          CleanupDel(t) => /\ DictHas(jobs, loc[t].cleanup_job[1].id)
                           /\ pc'[t] = "loop"]_vars

\* C20: a submit out of which start() raises has advanced job_id_counter by 1
\* and leaves it so, leaves client.jobs as the cleaned dict and hands no handle
\* out; a later admitted submit returns an id greater than every id consumed by
\* a failed spawn and greater than every id returned before.  (With one caller
\* the call that reads counter value c creates procs[c + 1].)
C20_FailedSpawnConsumesId ==
    [][/\ Len(procs) = job_id_counter
       /\ SpawnFailed => /\ job_id_counter' = job_id_counter + 1
                         /\ jobs' = NotDone
                         /\ handles' = handles
       /\ Admitted => /\ \A i \in 1..Len(procs) :
                            ~procs[i].started => last'.ret[1].id > i - 1
                      /\ \A k \in 1..Len(handles) :
                            handles[k].id < last'.ret[1].id]_vars

\* C20 witness: the first spawn failed and consumed id 0; the first handle
\* returned, by the last call, has id 1.
C20_Witness ==
    /\ Len(handles) = 1
    /\ handles[1].id = 1
    /\ ~procs[1].started
    /\ job_id_counter = 2
    /\ last = Call("submit", Some(handles[1]), FALSE, 0)

\* the tracked dict of a single-caller client is well formed: each key maps to
\* the handle of that id, ids lie in 0..job_id_counter-1, and every tracked
\* handle has a Process that was started, so its status is not "pending"
WellFormedJobs ==
    \A i \in 1..Len(jobs) :
        /\ jobs[i].value.id = jobs[i].key
        /\ jobs[i].key >= 0
        /\ jobs[i].key < job_id_counter
        /\ jobs[i].value.process # None
        /\ jobs[i].value.process[1] \in 1..Len(procs)
        /\ ProcessOf(jobs[i].value, procs).started
        /\ status(jobs[i].value, procs) # "pending"

\* C21: in every reachable state of a single-caller client the tracked dict is
\* well formed (key = handle id, 0 <= id < job_id_counter, a started process
\* attached, never "pending"), and no step changes n_workers from the value
\* given at construction.
C21_TrackedWellFormed ==
    /\ []WellFormedJobs
    /\ [][n_workers' = n_workers]_vars

\* C21 witness: after a failed first spawn (id 0 consumed, its Process never
\* started) the client tracks the jobs 1 and 2, the first of which has exited.
C21_Witness ==
    /\ DictLen(jobs) = 2
    /\ jobs[1].key = 1
    /\ jobs[2].key = 2
    /\ ~procs[1].started
    /\ job_id_counter = 3
    /\ status(jobs[1].value, procs) = "finished"
    /\ last.op = "submit"

=============================================================================
